---- MODULE Spec2Model ----
(***************************************************************************)
(* A model of tools/mkrom.c: the command-line front end (main), the three  *)
(* image rules (cmd_pad, cmd_pak3, cmd_stc) and the stream primitives they *)
(* are built from (get_size_value, get_file_size, write_byte_block,        *)
(* copy_stream, append_and_pad).                                           *)
(*                                                                         *)
(* A file is a sequence of bytes and a stream is a file plus a position.    *)
(* Byte sequences are kept run-length encoded: a sequence of runs, each n   *)
(* copies of one byte value ("val") or the n bytes at offset a of the       *)
(* source file as it was when the program started ("src"), whatever their   *)
(* values are.  Runs are kept merged (Cat), so that two encodings are equal *)
(* exactly when they denote the same bytes for every content of the source. *)
(* The program is sequential: pc is the position in the code and stack      *)
(* holds the return positions of the calls in progress.                     *)
(***************************************************************************)
EXTENDS Integers, Sequences, FiniteSets, TLC

VARIABLES
    pc,           \* position in the code
    stack,        \* return positions of the active calls
    op,           \* argv[1]: "pad", "pak3", "stc" or anything else ("none")
    arg,          \* argv[2] of pad: the size string, a sequence of characters
    target_size,  \* main's target_size, an unsigned long in limbs
    inData,       \* contents of the source file
    inPos,        \* position of infile
    inState,      \* "unopened", "open" or "closed"
    outData,      \* contents of the destination file
    outPos,       \* position of outfile
    outState,     \* "unopened", "open" or "closed"
    outExists,    \* a file exists at the destination path
    source_size,  \* source_size of the rule / *psource_size
    ap_target,    \* append_and_pad's parameter target_size
    count,        \* copy_stream's and write_byte_block's parameter count
    value,        \* write_byte_block's parameter value
    g_buffer,     \* the global buffer, BUFFER_SIZE bytes
    initial_pos,  \* get_file_size's initial_pos
    end_pos,      \* get_file_size's end_pos
    ret,          \* value returned by the last call that returned
    status,       \* exit status of the process, -1 while it runs
    err,          \* the diagnostics written to stderr, in order
    free_report,  \* the "bytes free" figure printed on stdout, -1 if none
    ioFail,       \* an I/O operation has failed (environment)
    shortLeft,    \* short reads the environment may still deliver
    h             \* history: what the primitive under observation was given

vars == <<pc, stack, op, arg, target_size, inData, inPos, inState, outData,
          outPos, outState, outExists, source_size, ap_target, count, value,
          g_buffer, initial_pos, end_pos, ret, status, err, free_report,
          ioFail, shortLeft, h>>

-----------------------------------------------------------------------------
(* Program constants *)

BUFFER_SIZE == 16384
KiB == 1024
STC_TARGET == 131072
PAK3_MAX == 262144
PAK3_TARGET == 524288
JMP_ADDRESS == 262192

MIN(a, b) == IF a <= b THEN a ELSE b

-----------------------------------------------------------------------------
(* Byte sequences, run-length encoded *)

\* n copies of the byte v
Val(v, n) == IF n <= 0 THEN <<>> ELSE <<[k |-> "val", a |-> v, n |-> n]>>

\* the n bytes at offset a of the source file
Src(a, n) == IF n <= 0 THEN <<>> ELSE <<[k |-> "src", a |-> a, n |-> n]>>

RECURSIVE Size(_)
\* number of bytes
Size(f) == IF f = <<>> THEN 0 ELSE f[1].n + Size(Tail(f))

\* run r2 continues run r1
Joins(r1, r2) ==
    /\ r1.k = r2.k
    /\ IF r1.k = "val" THEN r1.a = r2.a ELSE r2.a = r1.a + r1.n

\* f followed by g
Cat(f, g) ==
    IF f = <<>> THEN g
    ELSE IF g = <<>> THEN f
    ELSE IF Joins(f[Len(f)], g[1])
    THEN SubSeq(f, 1, Len(f) - 1)
         \o <<[f[Len(f)] EXCEPT !.n = @ + g[1].n]>>
         \o Tail(g)
    ELSE f \o g

RECURSIVE Take(_, _)
\* the first n bytes of f (all of f when it has fewer)
Take(f, n) ==
    IF n <= 0 \/ f = <<>> THEN <<>>
    ELSE IF f[1].n <= n THEN <<f[1]>> \o Take(Tail(f), n - f[1].n)
    ELSE <<[f[1] EXCEPT !.n = n]>>

RECURSIVE Drop(_, _)
\* f without its first n bytes
Drop(f, n) ==
    IF n <= 0 \/ f = <<>> THEN f
    ELSE IF f[1].n <= n THEN Drop(Tail(f), n - f[1].n)
    ELSE <<[f[1] EXCEPT !.n = @ - n,
                        !.a = IF f[1].k = "src" THEN @ + n ELSE @]>>
         \o Tail(f)

\* the n bytes at offset pos of f
Slice(f, pos, n) == Take(Drop(f, pos), n)

RECURSIVE FromBytes(_)
\* the encoding of a sequence of byte values
FromBytes(bs) ==
    IF bs = <<>> THEN <<>> ELSE Cat(Val(bs[1], 1), FromBytes(Tail(bs)))

\* const unsigned char jmp_instr[] = { 0x4e, 0xf9, 0x00, 0xe0, 0x00, 0x00 }
jmp_instr == FromBytes(<<78, 249, 0, 224, 0, 0>>)

-----------------------------------------------------------------------------
(* unsigned long arithmetic.  An unsigned long is ULONG_LIMBS limbs of     *)
(* 16 bits, least significant first (LP64: 64 bits).  Arithmetic drops the *)
(* carry out of the top limb, as C's unsigned arithmetic does.  The same   *)
(* operators with more limbs compute the exact mathematical value.         *)

LIMB == 65536
ULONG_LIMBS == 4
WIDE_LIMBS == 8

Zero(nl) == [i \in 1..nl |-> 0]

RECURSIVE CarryInto(_, _, _, _)
\* carry entering limb i when every limb of v is multiplied by m and c0 is added
CarryInto(v, m, c0, i) ==
    IF i = 1 THEN c0
    ELSE (v[i - 1] * m + CarryInto(v, m, c0, i - 1)) \div LIMB

\* v * m + c0, truncated to the limbs of v  (m <= 1024, c0 < LIMB)
MulAdd(v, m, c0) ==
    [i \in 1..Len(v) |-> (v[i] * m + CarryInto(v, m, c0, i)) % LIMB]

Extend(v, nl) == [i \in 1..nl |-> IF i <= Len(v) THEN v[i] ELSE 0]

RECURSIVE LimbsToInt(_)
LimbsToInt(v) == IF v = <<>> THEN 0 ELSE v[1] + LIMB * LimbsToInt(Tail(v))

RECURSIVE MulPow1024(_, _)
\* v * 1024^k in the width of v
MulPow1024(v, k) == IF k = 0 THEN v ELSE MulPow1024(MulAdd(v, KiB, 0), k - 1)

SIZE_ERROR == [i \in 1..ULONG_LIMBS |-> LIMB - 1]

-----------------------------------------------------------------------------
(* sscanf(strsize, "%lu%c%c", &val, &suffix, &tail) *)

Digits == {"0", "1", "2", "3", "4", "5", "6", "7", "8", "9"}

DigitVal(c) ==
    CASE c = "0" -> 0 [] c = "1" -> 1 [] c = "2" -> 2 [] c = "3" -> 3
      [] c = "4" -> 4 [] c = "5" -> 5 [] c = "6" -> 6 [] c = "7" -> 7
      [] c = "8" -> 8 [] c = "9" -> 9

RECURSIVE DigitPrefix(_)
\* number of leading digits of s
DigitPrefix(s) ==
    IF s # <<>> /\ Head(s) \in Digits THEN 1 + DigitPrefix(Tail(s)) ELSE 0

RECURSIVE Decimal(_, _)
\* value of the digit string s in nl limbs
Decimal(s, nl) ==
    IF s = <<>> THEN Zero(nl)
    ELSE MulAdd(Decimal(SubSeq(s, 1, Len(s) - 1), nl), 10, DigitVal(s[Len(s)]))

\* number of items assigned (0 stands for 0 or EOF), and the items, for a
\* string that does not begin with white space or a sign (which %lu skips or
\* accepts) and whose digits denote a value an unsigned long holds
Scan(strsize) ==
    LET d == DigitPrefix(strsize)
        rest == Len(strsize) - d
    IN  [ret    |-> IF d = 0 THEN 0 ELSE 1 + MIN(rest, 2),
         val    |-> Decimal(SubSeq(strsize, 1, d), ULONG_LIMBS),
         suffix |-> IF d > 0 /\ rest >= 1 THEN strsize[d + 1] ELSE "",
         tail   |-> IF d > 0 /\ rest >= 2 THEN strsize[d + 2] ELSE ""]

\* exponent of 1024 selected by the suffix, -1 for an invalid size
SuffixPower(sc) ==
    IF sc.ret = 1 THEN 0
    ELSE IF sc.ret = 2 /\ sc.suffix \in {"k", "K"} THEN 1
    ELSE IF sc.ret = 2 /\ sc.suffix \in {"m", "M"} THEN 2
    ELSE IF sc.ret = 2 /\ sc.suffix \in {"g", "G"} THEN 3
    ELSE -1

\* [val: the value returned, msg: the "invalid size" diagnostic was printed]
get_size_value(strsize) ==
    LET sc == Scan(strsize)
        p == SuffixPower(sc)
    IN  IF p = -1 THEN [val |-> SIZE_ERROR, msg |-> TRUE]
        ELSE [val |-> MulPow1024(sc.val, p), msg |-> FALSE]

-----------------------------------------------------------------------------
(* Streams and the environment *)

\* fwrite of bytes at position pos of a file: overwrites, extends, and fills
\* a gap left by a seek beyond the end with zeros
WriteAt(data, pos, bytes) ==
    Cat(Cat(Cat(Take(data, pos), Val(0, pos - Size(data))), bytes),
        Drop(data, pos + Size(bytes)))

\* byte counts a failed fwrite of n bytes may have transferred
PartialWrites(n) == {0, n - 1}

\* byte counts a short (but not empty) fread of at most n bytes may deliver
ShortReads(n) == {k \in {1, n \div 2, n - 1} : k >= 1 /\ k < n}

Call(entry, retTo) ==
    /\ pc' = entry
    /\ stack' = <<retTo>> \o stack

Return(r) ==
    /\ pc' = Head(stack)
    /\ stack' = Tail(stack)
    /\ ret' = r

Exit(code) ==
    /\ pc' = "done"
    /\ status' = code

Diag(kind, n) == err' = Append(err, [kind |-> kind, extra |-> n])

-----------------------------------------------------------------------------
(* main: the command line *)

MainArgsPad ==
    /\ pc = "start" /\ op = "pad"
    /\ LET r == get_size_value(arg)
       IN  IF r.val = SIZE_ERROR
           THEN /\ target_size' = r.val
                /\ Exit(1)
                /\ err' = IF r.msg THEN Append(err, [kind |-> "invalid size", extra |-> 0])
                          ELSE err
           ELSE /\ target_size' = r.val
                /\ pc' = "open_in"
                /\ UNCHANGED <<status, err>>
    /\ UNCHANGED <<stack, op, arg, inData, inPos, inState, outData, outPos,
                   outState, outExists, source_size, ap_target, count, value,
                   g_buffer, initial_pos, end_pos, ret, free_report, ioFail,
                   shortLeft, h>>

MainArgsPak3 ==
    /\ pc = "start" /\ op = "pak3"
    /\ pc' = "open_in"
    /\ UNCHANGED <<stack, op, arg, target_size, inData, inPos, inState, outData,
                   outPos, outState, outExists, source_size, ap_target, count,
                   value, g_buffer, initial_pos, end_pos, ret, status, err,
                   free_report, ioFail, shortLeft, h>>

MainArgsStc ==
    /\ pc = "start" /\ op = "stc"
    /\ pc' = "open_in"
    /\ UNCHANGED <<stack, op, arg, target_size, inData, inPos, inState, outData,
                   outPos, outState, outExists, source_size, ap_target, count,
                   value, g_buffer, initial_pos, end_pos, ret, status, err,
                   free_report, ioFail, shortLeft, h>>

MainUsage ==
    /\ pc = "start" /\ op \notin {"pad", "pak3", "stc"}
    /\ Diag("usage", 0)
    /\ Exit(1)
    /\ UNCHANGED <<stack, op, arg, target_size, inData, inPos, inState, outData,
                   outPos, outState, outExists, source_size, ap_target, count,
                   value, g_buffer, initial_pos, end_pos, ret, free_report,
                   ioFail, shortLeft, h>>

(* main: opening the files *)

MainOpenIn ==
    /\ pc = "open_in"
    /\ \/ /\ inState' = "open"
          /\ inPos' = 0
          /\ pc' = "open_out"
          /\ UNCHANGED <<status, err, ioFail>>
       \/ /\ ioFail' = TRUE
          /\ Diag("open", 0)
          /\ Exit(1)
          /\ UNCHANGED <<inState, inPos>>
    /\ UNCHANGED <<stack, op, arg, target_size, inData, outData, outPos,
                   outState, outExists, source_size, ap_target, count, value,
                   g_buffer, initial_pos, end_pos, ret, free_report, shortLeft,
                   h>>

MainOpenOut ==
    /\ pc = "open_out"
    /\ \/ /\ outState' = "open"
          /\ outExists' = TRUE
          /\ outData' = <<>>
          /\ outPos' = 0
          /\ pc' = "dispatch"
          /\ UNCHANGED <<status, err, ioFail>>
       \/ /\ ioFail' = TRUE
          /\ Diag("open", 0)
          /\ Exit(1)
          /\ UNCHANGED <<outState, outExists, outData, outPos>>
    /\ UNCHANGED <<stack, op, arg, target_size, inData, inPos, inState,
                   source_size, ap_target, count, value, g_buffer, initial_pos,
                   end_pos, ret, free_report, shortLeft, h>>

\* switch (op)
MainDispatch ==
    /\ pc = "dispatch"
    /\ Call(CASE op = "pad" -> "cmd_pad" [] op = "pak3" -> "cmd_pak3"
              [] op = "stc" -> "cmd_stc", "main_ret")
    /\ UNCHANGED <<op, arg, target_size, inData, inPos, inState, outData,
                   outPos, outState, outExists, source_size, ap_target, count,
                   value, g_buffer, initial_pos, end_pos, ret, status, err,
                   free_report, ioFail, shortLeft, h>>

(* main: after the rule *)

\* if (!ret) { fclose(outfile); remove(outfilename); return 1; }
\* (fclose releases the stream whatever it returns; remove is taken to succeed)
MainRuleFailed ==
    /\ pc = "main_ret" /\ ret = 0
    /\ outState' = "closed"
    /\ outExists' = FALSE
    /\ outData' = <<>>
    /\ Exit(1)
    /\ UNCHANGED <<stack, op, arg, target_size, inData, inPos, inState, outPos,
                   source_size, ap_target, count, value, g_buffer, initial_pos,
                   end_pos, ret, err, free_report, ioFail, shortLeft, h>>

\* err = fclose(outfile); if (err != 0) { remove(outfilename); ...; return 1; }
MainCloseOut ==
    /\ pc = "main_ret" /\ ret # 0
    /\ outState' = "closed"
    /\ \/ /\ pc' = "close_in"
          /\ UNCHANGED <<outExists, outData, status, err, ioFail>>
       \/ /\ ioFail' = TRUE
          /\ outExists' = FALSE
          /\ outData' = <<>>
          /\ Diag("close", 0)
          /\ Exit(1)
    /\ UNCHANGED <<stack, op, arg, target_size, inData, inPos, inState, outPos,
                   source_size, ap_target, count, value, g_buffer, initial_pos,
                   end_pos, ret, free_report, shortLeft, h>>

\* err = fclose(infile); if (err != 0) { ...; return 1; }  ...  return 0;
MainCloseIn ==
    /\ pc = "close_in"
    /\ inState' = "closed"
    /\ \/ /\ Exit(0)
          /\ UNCHANGED <<err, ioFail>>
       \/ /\ ioFail' = TRUE
          /\ Diag("close", 0)
          /\ Exit(1)
    /\ UNCHANGED <<stack, op, arg, target_size, inData, inPos, outData, outPos,
                   outState, outExists, source_size, ap_target, count, value,
                   g_buffer, initial_pos, end_pos, ret, free_report, shortLeft,
                   h>>

-----------------------------------------------------------------------------
(* get_file_size(infile).  The value returned is the size, or -1 for       *)
(* SIZE_ERROR ((size_t)-1, which no file position equals).                 *)

\* the restore left out: the stream stays at the end
RestoredPosEnd(initial, endp) == endp

\* the position fseek(file, initial_pos, SEEK_SET) restores
RestoredPos(initial, endp) == initial

\* initial_pos = ftell(file)
GfsTell ==
    /\ pc = "gfs_entry"
    /\ \/ /\ initial_pos' = inPos
          /\ pc' = "gfs_seek_end"
          /\ UNCHANGED <<stack, ret, err, ioFail, h>>
       \/ /\ ioFail' = TRUE
          /\ Diag("seek", 0)
          /\ Return(-1)
          /\ h' = [h EXCEPT !.probeFailed = TRUE]
          /\ UNCHANGED initial_pos
    /\ UNCHANGED <<op, arg, target_size, inData, inPos, inState, outData,
                   outPos, outState, outExists, source_size, ap_target, count,
                   value, g_buffer, end_pos, status, free_report, shortLeft>>

\* fseek(file, 0, SEEK_END)
GfsSeekEnd ==
    /\ pc = "gfs_seek_end"
    /\ \/ /\ inPos' = Size(inData)
          /\ pc' = "gfs_tell_end"
          /\ UNCHANGED <<stack, ret, err, ioFail, h>>
       \/ /\ ioFail' = TRUE
          /\ Diag("seek", 0)
          /\ Return(-1)
          /\ h' = [h EXCEPT !.probeFailed = TRUE]
          /\ UNCHANGED inPos
    /\ UNCHANGED <<op, arg, target_size, inData, inState, outData, outPos,
                   outState, outExists, source_size, ap_target, count, value,
                   g_buffer, initial_pos, end_pos, status, free_report,
                   shortLeft>>

\* end_pos = ftell(file)
GfsTellEnd ==
    /\ pc = "gfs_tell_end"
    /\ \/ /\ end_pos' = inPos
          /\ pc' = "gfs_restore"
          /\ UNCHANGED <<stack, ret, err, ioFail, h>>
       \/ /\ ioFail' = TRUE
          /\ Diag("seek", 0)
          /\ Return(-1)
          /\ h' = [h EXCEPT !.probeFailed = TRUE]
          /\ UNCHANGED end_pos
    /\ UNCHANGED <<op, arg, target_size, inData, inPos, inState, outData,
                   outPos, outState, outExists, source_size, ap_target, count,
                   value, g_buffer, initial_pos, status, free_report,
                   shortLeft>>

\* fseek(file, initial_pos, SEEK_SET); return (size_t)end_pos
GfsRestore ==
    /\ pc = "gfs_restore"
    /\ \/ /\ inPos' = RestoredPos(initial_pos, end_pos)
          /\ Return(end_pos)
          /\ h' = [h EXCEPT !.probes = @ + 1]
          /\ UNCHANGED <<err, ioFail>>
       \/ /\ ioFail' = TRUE
          /\ Diag("seek", 0)
          /\ Return(-1)
          /\ h' = [h EXCEPT !.probeFailed = TRUE]
          /\ UNCHANGED inPos
    /\ UNCHANGED <<op, arg, target_size, inData, inState, outData, outPos,
                   outState, outExists, source_size, ap_target, count, value,
                   g_buffer, initial_pos, end_pos, status, free_report,
                   shortLeft>>

-----------------------------------------------------------------------------
(* write_byte_block(outfile, value, count) *)

\* the memset left out: the buffer keeps what the last copy read
MemsetNone(buf, v, n) == buf

\* the memset one byte short
MemsetShort(buf, v, n) == Cat(Val(v, n - 1), Drop(buf, n - 1))

\* g_buffer after memset(g_buffer, v, n)
Memset(buf, v, n) == Cat(Val(v, n), Drop(buf, n))

\* memset(g_buffer, value, MIN(BUFFER_SIZE, count))
WbbEntry ==
    /\ pc = "wbb_entry"
    /\ g_buffer' = Memset(g_buffer, value, MIN(BUFFER_SIZE, count))
    /\ pc' = "wbb_loop"
    /\ UNCHANGED <<stack, op, arg, target_size, inData, inPos, inState, outData,
                   outPos, outState, outExists, source_size, ap_target, count,
                   value, initial_pos, end_pos, ret, status, err, free_report,
                   ioFail, shortLeft, h>>

\* one test of while (count > 0), and its body
WbbLoop ==
    /\ pc = "wbb_loop"
    /\ \/ /\ count = 0
          /\ Return(1)
          /\ UNCHANGED <<outData, outPos, count, err, ioFail, h>>
       \/ /\ count > 0
          /\ LET n == MIN(BUFFER_SIZE, count)
             IN  \/ /\ outData' = WriteAt(outData, outPos, Take(g_buffer, n))
                    /\ outPos' = outPos + n
                    /\ count' = count - n
                    /\ h' = [h EXCEPT !.maxReq = IF n > @ THEN n ELSE @]
                    /\ UNCHANGED <<pc, stack, ret, err, ioFail>>
                 \/ \E k \in PartialWrites(n) :
                    /\ ioFail' = TRUE
                    /\ outData' = WriteAt(outData, outPos, Take(g_buffer, k))
                    /\ outPos' = outPos + k
                    /\ h' = [h EXCEPT !.maxReq = IF n > @ THEN n ELSE @]
                    /\ Diag("write", 0)
                    /\ Return(0)
                    /\ UNCHANGED count
    /\ UNCHANGED <<op, arg, target_size, inData, inPos, inState, outState,
                   outExists, source_size, ap_target, value, g_buffer,
                   initial_pos, end_pos, status, free_report, shortLeft>>

-----------------------------------------------------------------------------
(* copy_stream(infile, outfile, count) *)

\* g_buffer after fread delivered the n bytes at position pos of data
Fread(buf, data, pos, n) == Cat(Slice(data, pos, n), Drop(buf, n))

\* the count not limited to the buffer
ToreadAll(c) == c

\* toread = MIN(BUFFER_SIZE, count)
Toread(c) == MIN(BUFFER_SIZE, c)

\* one pass of for(;;)
CsLoop ==
    /\ pc = "cs_loop"
    /\ LET toread == Toread(count)
           avail == Size(inData) - inPos
           full == MIN(toread, avail)
       IN  \/ /\ toread = 0
              /\ Return(1)
              /\ UNCHANGED <<inPos, outData, outPos, count, g_buffer, err,
                             ioFail, shortLeft, h>>
           \/ /\ toread > 0
              \* fread delivers nothing: a read error, or end of file
              /\ \/ ioFail' = TRUE /\ Diag("read", 0)
                 \/ avail = 0 /\ Diag("premature end of file", 0) /\ UNCHANGED ioFail
              /\ h' = [h EXCEPT !.maxReq = IF toread > @ THEN toread ELSE @]
              /\ Return(0)
              /\ UNCHANGED <<inPos, outData, outPos, count, g_buffer, shortLeft>>
           \/ /\ toread > 0
              \* fread delivers n bytes, all that were asked for and are
              \* there, or fewer
              /\ \E n \in (IF full > 0 THEN {full} ELSE {}) \cup
                          (IF shortLeft > 0 THEN ShortReads(full) ELSE {}) :
                 /\ shortLeft' = IF n < full THEN shortLeft - 1 ELSE shortLeft
                 /\ inPos' = inPos + n
                 /\ g_buffer' = Fread(g_buffer, inData, inPos, n)
                 /\ h' = [h EXCEPT !.maxReq = IF toread > @ THEN toread ELSE @,
                                   !.reads = @ + 1]
                 /\ \/ /\ outData' = WriteAt(outData, outPos, Take(g_buffer', n))
                       /\ outPos' = outPos + n
                       /\ count' = count - n
                       /\ UNCHANGED <<pc, stack, ret, err, ioFail>>
                    \/ \E k \in PartialWrites(n) :
                       /\ ioFail' = TRUE
                       /\ outData' = WriteAt(outData, outPos, Take(g_buffer', k))
                       /\ outPos' = outPos + k
                       /\ Diag("write", 0)
                       /\ Return(0)
                       /\ UNCHANGED count
    /\ UNCHANGED <<op, arg, target_size, inData, inState, outState, outExists,
                   source_size, ap_target, value, initial_pos, end_pos, status,
                   free_report>>

-----------------------------------------------------------------------------
(* append_and_pad(infile, outfile, target_size, psource_size) *)

\* the padding not reduced by the size of the image
FreeSizeWhole(target, source) == target

\* free_size = target_size - *psource_size
FreeSize(target, source) == target - source

\* *psource_size = get_file_size(infile, infilename)
ApEntry ==
    /\ pc = "ap_entry"
    /\ Call("gfs_entry", "ap_sized")
    /\ UNCHANGED <<op, arg, target_size, inData, inPos, inState, outData,
                   outPos, outState, outExists, source_size, ap_target, count,
                   value, g_buffer, initial_pos, end_pos, ret, status, err,
                   free_report, ioFail, shortLeft, h>>

\* the two tests on *psource_size, then copy_stream
ApSized ==
    /\ pc = "ap_sized"
    /\ source_size' = ret
    /\ IF ret = -1
       THEN /\ Return(0)
            /\ UNCHANGED <<err, count>>
       ELSE IF ret > ap_target
       THEN /\ Diag("too big", ret - ap_target)
            /\ Return(0)
            /\ UNCHANGED count
       ELSE /\ count' = ret
            /\ Call("cs_loop", "ap_copied")
            /\ UNCHANGED <<ret, err>>
    /\ UNCHANGED <<op, arg, target_size, inData, inPos, inState, outData,
                   outPos, outState, outExists, ap_target, value, g_buffer,
                   initial_pos, end_pos, status, free_report, ioFail,
                   shortLeft, h>>

\* if (!ret) return ret; then write_byte_block(outfile, 0, free_size)
ApCopied ==
    /\ pc = "ap_copied"
    /\ IF ret = 0
       THEN /\ Return(0)
            /\ UNCHANGED <<count, value>>
       ELSE /\ count' = FreeSize(ap_target, source_size)
            /\ value' = 0
            /\ Call("wbb_entry", "ap_padded")
            /\ UNCHANGED ret
    /\ UNCHANGED <<op, arg, target_size, inData, inPos, inState, outData,
                   outPos, outState, outExists, source_size, ap_target,
                   g_buffer, initial_pos, end_pos, status, err, free_report,
                   ioFail, shortLeft, h>>

\* if (!ret) return ret; return 1
ApPadded ==
    /\ pc = "ap_padded"
    /\ Return(IF ret = 0 THEN 0 ELSE 1)
    /\ UNCHANGED <<op, arg, target_size, inData, inPos, inState, outData,
                   outPos, outState, outExists, source_size, ap_target, count,
                   value, g_buffer, initial_pos, end_pos, status, err,
                   free_report, ioFail, shortLeft, h>>

-----------------------------------------------------------------------------
(* cmd_pad(infile, outfile, target_size) *)

\* free_size = target_size - source_size
PadFreeSize(target, source) == target - source

CmdPad ==
    /\ pc = "cmd_pad"
    /\ ap_target' = LimbsToInt(target_size)
    /\ Call("ap_entry", "pad_done")
    /\ UNCHANGED <<op, arg, target_size, inData, inPos, inState, outData,
                   outPos, outState, outExists, source_size, count, value,
                   g_buffer, initial_pos, end_pos, ret, status, err,
                   free_report, ioFail, shortLeft, h>>

\* if (!ret) return ret; free_size = target_size - source_size; printf
PadDone ==
    /\ pc = "pad_done"
    /\ IF ret = 0
       THEN /\ Return(0)
            /\ UNCHANGED free_report
       ELSE /\ free_report' = PadFreeSize(LimbsToInt(target_size), source_size)
            /\ Return(1)
    /\ UNCHANGED <<op, arg, target_size, inData, inPos, inState, outData,
                   outPos, outState, outExists, source_size, ap_target, count,
                   value, g_buffer, initial_pos, end_pos, status, err, ioFail,
                   shortLeft, h>>

-----------------------------------------------------------------------------
(* cmd_pak3(infile, outfile) *)

\* the size test made against the target size
Pak3CeilingTarget == PAK3_TARGET

\* size_t max_size = 256 * 1024: the ceiling of the size test
Pak3Ceiling == PAK3_MAX

\* the seek made relative to the current position
SeekCur(pos, offset) == pos + offset

\* the seek made to the start of the file, the offset dropped
SeekStart(pos, offset) == 0

\* the position after fseek(outfile, offset, SEEK_SET) from position pos
SeekSet(pos, offset) == offset

\* source_size = get_file_size(infile, infilename)
CmdPak3 ==
    /\ pc = "cmd_pak3"
    /\ Call("gfs_entry", "pak3_sized")
    /\ UNCHANGED <<op, arg, target_size, inData, inPos, inState, outData,
                   outPos, outState, outExists, source_size, ap_target, count,
                   value, g_buffer, initial_pos, end_pos, ret, status, err,
                   free_report, ioFail, shortLeft, h>>

\* the two tests on source_size, then append_and_pad(..., target_size, ...)
Pak3Sized ==
    /\ pc = "pak3_sized"
    /\ source_size' = ret
    /\ IF ret = -1
       THEN /\ Return(0)
            /\ UNCHANGED <<err, ap_target>>
       ELSE IF ret > Pak3Ceiling
       THEN /\ Diag("too big", ret - Pak3Ceiling)
            /\ Return(0)
            /\ UNCHANGED ap_target
       ELSE /\ ap_target' = PAK3_TARGET
            /\ Call("ap_entry", "pak3_padded")
            /\ UNCHANGED <<ret, err>>
    /\ UNCHANGED <<op, arg, target_size, inData, inPos, inState, outData,
                   outPos, outState, outExists, count, value, g_buffer,
                   initial_pos, end_pos, status, free_report, ioFail,
                   shortLeft, h>>

\* if (!ret) return ret; fseek(outfile, jmp_address, SEEK_SET)
Pak3Padded ==
    /\ pc = "pak3_padded"
    /\ \/ /\ ret = 0
          /\ Return(0)
          /\ UNCHANGED <<outPos, err, ioFail>>
       \/ /\ ret # 0
          /\ outPos' = SeekSet(outPos, JMP_ADDRESS)
          /\ pc' = "pak3_patch"
          /\ UNCHANGED <<stack, ret, err, ioFail>>
       \/ /\ ret # 0
          /\ ioFail' = TRUE
          /\ Diag("seek", 0)
          /\ Return(0)
          /\ UNCHANGED outPos
    /\ UNCHANGED <<op, arg, target_size, inData, inPos, inState, outData,
                   outState, outExists, source_size, ap_target, count, value,
                   g_buffer, initial_pos, end_pos, status, free_report,
                   shortLeft, h>>

\* fwrite(jmp_instr, 1, sizeof jmp_instr, outfile)
Pak3Patch ==
    /\ pc = "pak3_patch"
    /\ \/ /\ outData' = WriteAt(outData, outPos, jmp_instr)
          /\ outPos' = outPos + Size(jmp_instr)
          /\ Return(1)
          /\ UNCHANGED <<err, ioFail>>
       \/ \E k \in PartialWrites(Size(jmp_instr)) :
          /\ ioFail' = TRUE
          /\ outData' = WriteAt(outData, outPos, Take(jmp_instr, k))
          /\ outPos' = outPos + k
          /\ Diag("write", 0)
          /\ Return(0)
    /\ UNCHANGED <<op, arg, target_size, inData, inPos, inState, outState,
                   outExists, source_size, ap_target, count, value, g_buffer,
                   initial_pos, end_pos, status, free_report, shortLeft, h>>

-----------------------------------------------------------------------------
(* cmd_stc(infile, outfile) *)

\* write_byte_block(outfile, outfilename, 0, 4): the length of the prefix
STC_PREFIX == 4

\* the free size reduced by the prefix
StcFreeSizeLessPrefix(target, source) == target - STC_PREFIX - source

\* free_size = target_size - source_size
StcFreeSize(target, source) == target - source

\* source_size = get_file_size(infile, infilename)
CmdStc ==
    /\ pc = "cmd_stc"
    /\ Call("gfs_entry", "stc_sized")
    /\ UNCHANGED <<op, arg, target_size, inData, inPos, inState, outData,
                   outPos, outState, outExists, source_size, ap_target, count,
                   value, g_buffer, initial_pos, end_pos, ret, status, err,
                   free_report, ioFail, shortLeft, h>>

\* the two tests on source_size, then the long zero at the beginning
StcSized ==
    /\ pc = "stc_sized"
    /\ source_size' = ret
    /\ IF ret = -1
       THEN /\ Return(0)
            /\ UNCHANGED <<err, count, value>>
       ELSE IF ret > STC_TARGET
       THEN /\ Diag("too big", ret - STC_TARGET)
            /\ Return(0)
            /\ UNCHANGED <<count, value>>
       ELSE /\ count' = STC_PREFIX
            /\ value' = 0
            /\ Call("wbb_entry", "stc_prefixed")
            /\ UNCHANGED <<ret, err>>
    /\ UNCHANGED <<op, arg, target_size, inData, inPos, inState, outData,
                   outPos, outState, outExists, ap_target, g_buffer,
                   initial_pos, end_pos, status, free_report, ioFail,
                   shortLeft, h>>

\* if (!ret) return ret; copy_stream(infile, outfile, source_size)
StcPrefixed ==
    /\ pc = "stc_prefixed"
    /\ IF ret = 0
       THEN /\ Return(0)
            /\ UNCHANGED count
       ELSE /\ count' = source_size
            /\ Call("cs_loop", "stc_copied")
            /\ UNCHANGED ret
    /\ UNCHANGED <<op, arg, target_size, inData, inPos, inState, outData,
                   outPos, outState, outExists, source_size, ap_target, value,
                   g_buffer, initial_pos, end_pos, status, err, free_report,
                   ioFail, shortLeft, h>>

\* if (!ret) return ret; free_size = target_size - source_size; pad
StcCopied ==
    /\ pc = "stc_copied"
    /\ IF ret = 0
       THEN /\ Return(0)
            /\ UNCHANGED <<count, value>>
       ELSE /\ count' = StcFreeSize(STC_TARGET, source_size)
            /\ value' = 0
            /\ Call("wbb_entry", "stc_padded")
            /\ UNCHANGED ret
    /\ UNCHANGED <<op, arg, target_size, inData, inPos, inState, outData,
                   outPos, outState, outExists, source_size, ap_target,
                   g_buffer, initial_pos, end_pos, status, err, free_report,
                   ioFail, shortLeft, h>>

\* if (!ret) return ret; printf("# %s done (%lu bytes free)\n", ...)
StcPadded ==
    /\ pc = "stc_padded"
    /\ IF ret = 0
       THEN /\ Return(0)
            /\ UNCHANGED free_report
       ELSE /\ free_report' = StcFreeSize(STC_TARGET, source_size)
            /\ Return(1)
    /\ UNCHANGED <<op, arg, target_size, inData, inPos, inState, outData,
                   outPos, outState, outExists, source_size, ap_target, count,
                   value, g_buffer, initial_pos, end_pos, status, err, ioFail,
                   shortLeft, h>>

-----------------------------------------------------------------------------
(* Bounds, and the inputs drawn within them *)

\* input sizes lie within Slack of 0 and of each size the code tests against
Slack == 1
\* short reads the environment delivers in one run
MaxShortReads == 2

Thresholds == {BUFFER_SIZE, STC_TARGET, PAK3_MAX}

InSizes == (0..Slack) \cup
           UNION {(c - Slack)..(c + Slack) : c \in Thresholds}

\* a source file of n bytes
InBytes(n) == Src(0, n)

\* size arguments of pad: 0, 2, 16384, 33792 bytes, and two invalid ones
PadArgs == {<<"0">>, <<"2">>, <<"1", "6", "k">>, <<"3", "3", "K">>,
            <<"1", "x">>, <<"k">>}

\* prim: the primitive observed ("main": a whole run); in0, outLen0, count0:
\* the positions and the count it starts with; maxReq: the largest fread or
\* fwrite request so far; probes: calls of get_file_size that succeeded;
\* probeFailed: one of them failed; reads: freads that delivered bytes
NoHistory == [prim |-> "main", in0 |-> 0, outLen0 |-> 0, count0 |-> 0,
              maxReq |-> 0, probes |-> 0, probeFailed |-> FALSE, reads |-> 0]

-----------------------------------------------------------------------------
(* The program: one invocation of mkrom *)

Init ==
    /\ pc = "start"
    /\ stack = <<>>
    /\ op \in {"pad", "pak3", "stc", "none"}
    /\ arg \in (IF op = "pad" THEN PadArgs ELSE {<<>>})
    /\ target_size = Zero(ULONG_LIMBS)
    /\ inData \in {InBytes(n) : n \in InSizes}
    /\ inPos = 0
    /\ inState = "unopened"
    /\ outData = <<>>
    /\ outPos = 0
    /\ outState = "unopened"
    /\ outExists = FALSE
    /\ source_size = 0
    /\ ap_target = 0
    /\ count = 0
    /\ value = 0
    /\ g_buffer = Val(0, BUFFER_SIZE)
    /\ initial_pos = 0
    /\ end_pos = 0
    /\ ret = 0
    /\ status = -1
    /\ err = <<>>
    /\ free_report = -1
    /\ ioFail = FALSE
    /\ shortLeft = MaxShortReads
    /\ h = NoHistory

Next ==
    \/ MainArgsPad \/ MainArgsPak3 \/ MainArgsStc \/ MainUsage
    \/ MainOpenIn \/ MainOpenOut \/ MainDispatch
    \/ MainRuleFailed \/ MainCloseOut \/ MainCloseIn
    \/ GfsTell \/ GfsSeekEnd \/ GfsTellEnd \/ GfsRestore
    \/ WbbEntry \/ WbbLoop
    \/ CsLoop
    \/ ApEntry \/ ApSized \/ ApCopied \/ ApPadded
    \/ CmdPad \/ PadDone
    \/ CmdPak3 \/ Pak3Sized \/ Pak3Padded \/ Pak3Patch
    \/ CmdStc \/ StcSized \/ StcPrefixed \/ StcCopied \/ StcPadded

Spec == Init /\ [][Next]_vars

-----------------------------------------------------------------------------
(* The size argument alone: main up to the opening of the files *)

Numerals ==
    {<<"0">>, <<"1">>, <<"1", "6">>, <<"1", "0", "2", "3">>,
     <<"4", "1", "9", "4", "3", "0", "4">>,
     <<"1", "7", "1", "7", "9", "8", "6", "9", "1", "8", "3">>,
     <<"1", "7", "1", "7", "9", "8", "6", "9", "1", "8", "4">>,
     <<"1", "8", "0", "1", "4", "3", "9", "8", "5", "0", "9", "4", "8", "1",
       "9", "8", "4">>,
     <<"1", "8", "4", "4", "6", "7", "4", "4", "0", "7", "3", "7", "0", "9",
       "5", "5", "1", "6", "1", "5">>}

Suffixes == {<<"k">>, <<"K">>, <<"m">>, <<"M">>, <<"g">>, <<"G">>}

Tails == {<<>>} \cup Suffixes \cup
         {<<"x">>, <<"b">>, <<"k", "b">>, <<"g", "g">>, <<"M", " ">>}

SizeArgs == {n \o t : n \in Numerals, t \in Tails} \cup
            {<<>>, <<"k">>, <<"x", "1">>}

InitSize ==
    /\ pc = "start"
    /\ stack = <<>>
    /\ op = "pad"
    /\ arg \in SizeArgs
    /\ target_size = Zero(ULONG_LIMBS)
    /\ inData = InBytes(0)
    /\ inPos = 0
    /\ inState = "unopened"
    /\ outData = <<>>
    /\ outPos = 0
    /\ outState = "unopened"
    /\ outExists = FALSE
    /\ source_size = 0
    /\ ap_target = 0
    /\ count = 0
    /\ value = 0
    /\ g_buffer = Val(0, BUFFER_SIZE)
    /\ initial_pos = 0
    /\ end_pos = 0
    /\ ret = 0
    /\ status = -1
    /\ err = <<>>
    /\ free_report = -1
    /\ ioFail = FALSE
    /\ shortLeft = MaxShortReads
    /\ h = NoHistory

NextSize == MainArgsPad

SpecSize == InitSize /\ [][NextSize]_vars

-----------------------------------------------------------------------------
(* The primitives alone: get_file_size, copy_stream and write_byte_block   *)
(* called on streams at any position, with any count.  The stack holds the *)
(* calls still to make; "halt" ends the run.                               *)

PrimSizes == (0..Slack) \cup ((BUFFER_SIZE - Slack)..(BUFFER_SIZE + Slack))
             \cup {2 * BUFFER_SIZE + Slack}

PrimCalls == {[prim |-> "copy", calls |-> <<"cs_loop", "halt">>],
              [prim |-> "copy", calls |-> <<"gfs_entry", "cs_loop", "halt">>],
              [prim |-> "copy",
               calls |-> <<"gfs_entry", "gfs_entry", "cs_loop", "halt">>],
              [prim |-> "fill", calls |-> <<"wbb_entry", "halt">>]}

\* n bytes already in the destination, all 0xaa
OldOut(n) == Val(170, n)

InitPrim ==
    /\ \E c \in PrimCalls :
        /\ pc = Head(c.calls)
        /\ stack = Tail(c.calls)
        /\ \E len \in (IF c.prim = "copy" THEN PrimSizes ELSE {0}) :
            /\ inData = InBytes(len)
            /\ inPos \in {q \in {0, 1, len} : q <= len}
        /\ count \in PrimSizes
        /\ value \in (IF c.prim = "fill" THEN {0, 255} ELSE {0})
        /\ outPos \in {0, 2}
        /\ outData = OldOut(outPos)
        /\ h = [NoHistory EXCEPT !.prim = c.prim, !.in0 = inPos,
                                 !.outLen0 = outPos, !.count0 = count]
    /\ op = "none"
    /\ arg = <<>>
    /\ target_size = Zero(ULONG_LIMBS)
    /\ inState = "open"
    /\ outState = "open"
    /\ outExists = TRUE
    /\ source_size = 0
    /\ ap_target = 0
    /\ g_buffer = Val(0, BUFFER_SIZE)
    /\ initial_pos = 0
    /\ end_pos = 0
    /\ ret = 0
    /\ status = -1
    /\ err = <<>>
    /\ free_report = -1
    /\ ioFail = FALSE
    /\ shortLeft = MaxShortReads

NextPrim ==
    \/ GfsTell \/ GfsSeekEnd \/ GfsTellEnd \/ GfsRestore
    \/ CsLoop
    \/ WbbEntry \/ WbbLoop

SpecPrim == InitPrim /\ [][NextPrim]_vars

-----------------------------------------------------------------------------
(* Properties *)

\* size of the source file
S == Size(inData)

\* the rule called by main has returned, and no I/O operation failed
RuleReturnedNoFailure == pc = "main_ret" /\ ~ioFail

\* C1: Generic Pad: when the input size S is at most the target size T and no
\* I/O operation fails, cmd_pad succeeds and the output is T bytes long: the
\* S bytes of the input in order, then T-S zero bytes.
PadLayout ==
    (op = "pad" /\ RuleReturnedNoFailure /\ S <= LimbsToInt(target_size)) =>
        LET T == LimbsToInt(target_size)
        IN  /\ ret = 1
            /\ Size(outData) = T
            /\ Take(outData, S) = inData
            /\ Drop(outData, S) = Val(0, T - S)

\* C1 witness: pad has copied an image longer than the buffer, with a short
\* read, and padded it
PadLayoutWitness ==
    /\ op = "pad" /\ RuleReturnedNoFailure /\ ret = 1
    /\ S > BUFFER_SIZE /\ S < LimbsToInt(target_size)
    /\ shortLeft < MaxShortReads

\* C2 as stated: Cartridge-with-Prefix: for S <= 128 KiB and no I/O failure
\* the output is exactly 128 KiB long: 4 zero bytes, the input, then zeros.
StcLayout128K ==
    (op = "stc" /\ RuleReturnedNoFailure /\ S <= STC_TARGET) =>
        /\ ret = 1
        /\ Size(outData) = STC_TARGET
        /\ Take(outData, 4) = Val(0, 4)
        /\ Slice(outData, 4, S) = inData
        /\ Drop(outData, 4 + S) = Val(0, STC_TARGET - 4 - S)

\* C2 amended: Cartridge-with-Prefix: for S <= 128 KiB and no I/O failure
\* cmd_stc succeeds and the output is exactly 128 KiB + 4 bytes long: 4 zero
\* bytes, the S bytes of the input, then 128 KiB - S zero bytes.
StcLayout ==
    (op = "stc" /\ RuleReturnedNoFailure /\ S <= STC_TARGET) =>
        /\ ret = 1
        /\ Size(outData) = STC_TARGET + 4
        /\ Take(outData, 4) = Val(0, 4)
        /\ Slice(outData, 4, S) = inData
        /\ Drop(outData, 4 + S) = Val(0, STC_TARGET - S)

\* C2 witness: stc has written an image longer than the buffer and shorter
\* than 128 KiB
StcLayoutWitness ==
    /\ op = "stc" /\ RuleReturnedNoFailure /\ ret = 1
    /\ S > BUFFER_SIZE /\ S < STC_TARGET

\* C3: Cartridge-with-Patch: for S <= 256 KiB and no I/O failure cmd_pak3
\* succeeds and the output is exactly 512 KiB long: up to 0x40030 the input
\* followed by zeros, at 0x40030 the six bytes 4e f9 00 e0 00 00, and zeros
\* from 0x40036 to the end.
Pak3Layout ==
    (op = "pak3" /\ RuleReturnedNoFailure /\ S <= PAK3_MAX) =>
        /\ ret = 1
        /\ Size(outData) = PAK3_TARGET
        /\ Take(outData, JMP_ADDRESS) = Cat(inData, Val(0, JMP_ADDRESS - S))
        /\ Slice(outData, JMP_ADDRESS, 6) = FromBytes(<<78, 249, 0, 224, 0, 0>>)
        /\ Drop(outData, JMP_ADDRESS + 6) = Val(0, PAK3_TARGET - JMP_ADDRESS - 6)

\* C3 witness: pak3 has patched the image made from an input of exactly
\* 256 KiB
Pak3LayoutWitness ==
    /\ op = "pak3" /\ RuleReturnedNoFailure /\ ret = 1
    /\ S = PAK3_MAX

\* the ceiling of the rule selected
Ceiling ==
    CASE op = "pad" -> LimbsToInt(target_size)
      [] op = "stc" -> STC_TARGET
      [] op = "pak3" -> PAK3_MAX

\* the rule selected is given an input larger than its ceiling
TooLarge ==
    /\ op \in {"pad", "stc", "pak3"}
    /\ pc # "start"
    /\ target_size # SIZE_ERROR
    /\ S > Ceiling

\* C4: an input larger than the rule's ceiling (pad: T, stc: 128 KiB, pak3:
\* 256 KiB) never gets a byte written to the output, and unless an I/O
\* operation fails first the rule fails with the single diagnostic "too big"
\* reporting S - ceiling extra bytes.
TooLargeRejected ==
    TooLarge =>
        /\ outData = <<>>
        /\ outPos = 0
        /\ RuleReturnedNoFailure =>
            /\ ret = 0
            /\ err = <<[kind |-> "too big", extra |-> S - Ceiling]>>

\* C4 witness: pak3 has rejected an input between its input limit and its
\* target size
TooLargeWitness ==
    /\ TooLarge /\ RuleReturnedNoFailure
    /\ op = "pak3" /\ S < PAK3_TARGET /\ ret = 0

\* C5: whenever the process ends with failure status after having opened the
\* output, the destination path holds no file.
FailureDeletesOutput ==
    (pc = "done" /\ status # 0 /\ outState # "unopened") => ~outExists

\* C6: when the process ends, no stream that main opened is still open.
StreamsClosedAtExit ==
    pc = "done" => (inState # "open" /\ outState # "open")

\* C7 as stated: on success cmd_stc reports 128 KiB - 4 - S free bytes.
StcFreeLessPrefix ==
    (op = "stc" /\ pc = "main_ret" /\ ret = 1) =>
        free_report = STC_TARGET - 4 - S

\* C7 amended: on success cmd_stc reports 128 KiB - S (131072 - S) free
\* bytes, which is the number of zero padding bytes that follow the copied
\* image in the output.
StcFreeReported ==
    (op = "stc" /\ pc = "main_ret" /\ ret = 1) =>
        /\ free_report = STC_TARGET - S
        /\ Drop(outData, 4 + S) = Val(0, free_report)
        /\ Size(outData) = 4 + S + free_report

\* C7 witness: stc has reported the free bytes of an image that leaves some
StcFreeWitness ==
    /\ op = "stc" /\ pc = "main_ret" /\ ret = 1
    /\ S > 0 /\ free_report > 0

\* the digits and the rest of the size argument
ArgDigits == SubSeq(arg, 1, DigitPrefix(arg))
ArgTail == SubSeq(arg, DigitPrefix(arg) + 1, Len(arg))

\* exponent of 1024 that a suffix stands for
PowerOf(t) ==
    IF t = <<>> THEN 0
    ELSE IF t[1] \in {"k", "K"} THEN 1
    ELSE IF t[1] \in {"m", "M"} THEN 2
    ELSE 3

\* C8: a decimal integer n with no suffix or with one of k/K, m/M, g/G gives
\* a target size of exactly n, n*1024, n*1024^2, n*1024^3 bytes, for every n;
\* any other size argument is rejected: exit status 1, no file opened.
SizeArgExact ==
    (op = "pad" /\ pc # "start") =>
        IF ArgDigits # <<>> /\ ArgTail \in {<<>>} \cup Suffixes
        THEN /\ pc # "done"
             /\ Extend(target_size, WIDE_LIMBS) =
                    MulPow1024(Decimal(ArgDigits, WIDE_LIMBS), PowerOf(ArgTail))
        ELSE /\ pc = "done" /\ status = 1
             /\ inState = "unopened" /\ outState = "unopened"

\* what the streams and the destination hold once copy_stream has moved n
\* bytes from the position it started at
Copied(n) ==
    /\ inPos = h.in0 + n
    /\ outPos = h.outLen0 + n
    /\ outData = Cat(OldOut(h.outLen0), Src(h.in0, n))

\* C9: copy_stream never asks fread or fwrite for more than the 16 KiB of the
\* buffer; whatever the reads deliver, what it has written is what it has
\* read, in order; it returns success if and only if it has read and written
\* exactly count bytes; it fails when the source ends before count bytes.
CopyExact ==
    /\ h.prim = "copy" => h.maxReq <= BUFFER_SIZE
    /\ (h.prim = "copy" /\ pc = "halt" /\ ~h.probeFailed) =>
        /\ ret \in {0, 1}
        /\ ret = 1 <=> Copied(h.count0)
        /\ ret = 0 => outPos - h.outLen0 < h.count0
        /\ outData = Cat(OldOut(h.outLen0), Src(h.in0, outPos - h.outLen0))
        /\ h.in0 + h.count0 > S => ret = 0

\* C9 witness: copy_stream has copied more than one buffer from the middle of
\* the source, with a short read
CopyExactWitness ==
    /\ h.prim = "copy" /\ pc = "halt" /\ ret = 1
    /\ h.count0 > BUFFER_SIZE /\ h.in0 > 0
    /\ shortLeft < MaxShortReads

\* positions a call of get_file_size returns to when the primitives are
\* called alone: the next call of it, or the copy (which has not read yet
\* while h.reads = 0)
AfterProbe == {"gfs_entry", "cs_loop"}

\* C10: a successful get_file_size on a stream of length L at position p
\* returns L and leaves the stream at p, also when it is called twice, and a
\* copy made after it delivers the bytes from position p on.
ProbeRestores ==
    /\ (h.probes > 0 /\ ~h.probeFailed /\ h.reads = 0 /\ pc \in AfterProbe) =>
            (inPos = h.in0 /\ ret = S)
    /\ (h.probes > 0 /\ ~h.probeFailed /\ h.prim = "copy" /\ pc = "halt"
            /\ ret = 1) =>
            outData = Cat(OldOut(h.outLen0), Src(h.in0, h.count0))

\* C10 witness: get_file_size has returned twice on a stream positioned
\* inside the file
ProbeRestoresWitness ==
    /\ h.probes = 2 /\ ~h.probeFailed /\ h.reads = 0 /\ pc = "cs_loop"
    /\ h.in0 > 0 /\ h.in0 < S

\* C11: a successful write_byte_block(outfile, v, count) appends exactly
\* count bytes to the destination, each equal to v, also when count exceeds
\* the 16 KiB buffer and is no multiple of it; with count = 0 it makes no
\* fwrite request, writes nothing and returns success; it fails only when a
\* write fails.
FillExact ==
    (h.prim = "fill" /\ pc = "halt") =>
        /\ ret \in {0, 1}
        /\ ret = 1 =>
            /\ outData = Cat(OldOut(h.outLen0), Val(value, h.count0))
            /\ Size(outData) = h.outLen0 + h.count0
            /\ outPos = h.outLen0 + h.count0
        /\ h.count0 = 0 =>
            /\ ret = 1
            /\ h.maxReq = 0
            /\ outData = OldOut(h.outLen0)
        /\ ~ioFail => ret = 1

\* C11 witness: write_byte_block has written a nonzero byte value more than
\* one buffer long, not a whole number of buffers, after bytes already there
FillExactWitness ==
    /\ h.prim = "fill" /\ pc = "halt" /\ ret = 1
    /\ value # 0 /\ h.outLen0 > 0
    /\ h.count0 > BUFFER_SIZE /\ h.count0 % BUFFER_SIZE # 0

\* C12: in cmd_pak3, for every input that passes the size test, the six
\* bytes about to be patched lie after the image, inside the 512 KiB output,
\* and hold zero padding; after the patch the first S bytes of the output
\* still equal the input and the output is still 512 KiB long.
PatchInPadding ==
    /\ pc = "pak3_patch" =>
        /\ S <= PAK3_MAX
        /\ Size(outData) = PAK3_TARGET
        /\ outPos >= S
        /\ outPos + Size(jmp_instr) <= Size(outData)
        /\ Slice(outData, outPos, Size(jmp_instr)) = Val(0, Size(jmp_instr))
        /\ Take(outData, S) = inData
    /\ (op = "pak3" /\ pc = "main_ret" /\ ret = 1) =>
        /\ Size(outData) = PAK3_TARGET
        /\ Take(outData, S) = inData
        /\ Slice(outData, S, JMP_ADDRESS - S) = Val(0, JMP_ADDRESS - S)

\* C12 witness: pak3 has patched the output of the largest image it accepts,
\* copied with a short read
PatchInPaddingWitness ==
    /\ op = "pak3" /\ pc = "main_ret" /\ ret = 1
    /\ S = PAK3_MAX
    /\ shortLeft < MaxShortReads
    /\ Slice(outData, JMP_ADDRESS, 2) = FromBytes(<<78, 249>>)

====
